---------------------------- MODULE Spec2Model ----------------------------
(***************************************************************************)
(* The two load_sync form handlers of amazon_integration:                  *)
(*   "Amazon Settings"      doctype/amazon_settings/amazon_settings.js     *)
(*   "Amazon API Settings"  unnamed/part_000                               *)
(* A JavaScript string is a sequence of one-character strings; a           *)
(* JavaScript value of a date field is a record [t, s].  A time value is   *)
(* a day number since 1970-01-01 and the milliseconds within that day (a   *)
(* millisecond count since the epoch exceeds TLC's 32-bit integers). *)
(***************************************************************************)
EXTENDS Integers, Sequences, FiniteSets

\* Bounds of the model.
MaxInv == 2        \* invocations of the handler in one behaviour
MaxLen == 1        \* longest array a response carries in message

----------------------------------------------------------------------------
\* JavaScript values held by a date field / passed as a call argument.
Null      == [t |-> "null", s |-> <<>>]
Undefined == [t |-> "undefined", s |-> <<>>]
Str(s)    == [t |-> "string", s |-> s]

\* !dateString  (amazon_settings.js:8)
Falsy(v) == v.t \in {"null", "undefined"} \/ (v.t = "string" /\ v.s = <<>>)

Digits == <<"0", "1", "2", "3", "4", "5", "6", "7", "8", "9">>
IsDigit(c) == \E v \in 1..Len(Digits) : Digits[v] = c
DigitVal(c) == (CHOOSE v \in 1..Len(Digits) : Digits[v] = c) - 1
AllDigits(s) == \A k \in 1..Len(s) : IsDigit(s[k])

RECURSIVE Num(_)
Num(s) == IF s = <<>> THEN 0
          ELSE Num(SubSeq(s, 1, Len(s) - 1)) * Len(Digits) + DigitVal(s[Len(s)])

RECURSIVE Pad(_, _)
\* n written in decimal on exactly w digits (n < 10^w)
Pad(n, w) == IF w = 0 THEN <<>>
             ELSE Pad(n \div Len(Digits), w - 1) \o <<Digits[(n % Len(Digits)) + 1]>>

----------------------------------------------------------------------------
\* Calendar arithmetic of the Date object (proleptic Gregorian, UTC).
MsPerDay    == 24 * 60 * 60 * 1000
MsPerMinute == 60 * 1000
MaxDay      == 100000000     \* TimeClip: |t| <= 8.64e15 ms = 1e8 days

IsLeap(y) == (y % 4 = 0 /\ y % 100 # 0) \/ y % 400 = 0
DaysInMonth(y, m) == IF m = 2 THEN (IF IsLeap(y) THEN 29 ELSE 28)
                     ELSE IF m \in {4, 6, 9, 11} THEN 30 ELSE 31

\* Day number of a civil date; the year yy starts in March, mp counts the
\* months from March.
DaysFromShifted(yy, mp, d) ==
    LET era == yy \div 400
        yoe == yy - era * 400
    IN  era * 146097 + yoe * 365 + yoe \div 4 - yoe \div 100
        + (153 * mp + 2) \div 5 + d - 1 - 719468

DaysFromCivil(y, m, d) ==
    DaysFromShifted((IF m <= 2 THEN y - 1 ELSE y), (m + 9) % 12, d)

\* Civil date of a day number, by the same eras of 400 years.
CivilOfMonth(y, doy, mp) ==
    [year  |-> y + (IF mp < 10 THEN 0 ELSE 1),
     month |-> IF mp < 10 THEN mp + 3 ELSE mp - 9,
     day   |-> doy - (153 * mp + 2) \div 5 + 1]
CivilOfDoy(y, doy) == CivilOfMonth(y, doy, (5 * doy + 2) \div 153)
CivilOfYoe(era, doe, yoe) ==
    CivilOfDoy(yoe + era * 400, doe - (365 * yoe + yoe \div 4 - yoe \div 100))
CivilOfDoe(era, doe) ==
    CivilOfYoe(era, doe,
               (doe - doe \div 1460 + doe \div 36524 - doe \div 146096) \div 365)
CivilOfEra(zz, era) == CivilOfDoe(era, zz - era * 146097)
CivilFromDays(z) == CivilOfEra(z + 719468, (z + 719468) \div 146097)

\* Time values: NaN (Invalid Date) or a day number and the ms in that day.
NaN == [nan |-> TRUE, day |-> 0, ms |-> 0]
TimeValue(day, ms) ==
    LET d2 == day + ms \div MsPerDay
        m2 == ms % MsPerDay
    IN  IF d2 < -MaxDay \/ d2 > MaxDay \/ (d2 = MaxDay /\ m2 > 0)
        THEN NaN
        ELSE [nan |-> FALSE, day |-> d2, ms |-> m2]

----------------------------------------------------------------------------
\* new Date(dateString)  (amazon_settings.js:9, part_000:9).
\* Accepted forms: YYYY-MM-DD and [+-]YYYYYY-MM-DD (UTC midnight), and either
\* followed by "T" or " ", HH:mm:ss, an optional .sss and an optional Z.
\* A date-time without Z is local time: tzo is getTimezoneOffset(), the
\* minutes to add to local time to get UTC.  Anything else is Invalid Date.

\* What may follow HH:mm:ss: nothing, Z, .sss or .sssZ.
FractionOk(t) ==
    \/ t = <<>>
    \/ t = <<"Z">>
    \/ /\ Len(t) \in {4, 5}
       /\ t[1] = "." /\ AllDigits(SubSeq(t, 2, 4))
       /\ (Len(t) = 5 => t[5] = "Z")

TimeOk(rest) ==
    \/ rest = <<>>
    \/ /\ Len(rest) >= 9
       /\ rest[1] \in {"T", " "}
       /\ AllDigits(SubSeq(rest, 2, 3)) /\ rest[4] = ":"
       /\ AllDigits(SubSeq(rest, 5, 6)) /\ rest[7] = ":"
       /\ AllDigits(SubSeq(rest, 8, 9))
       /\ FractionOk(SubSeq(rest, 10, Len(rest)))

ParseTime(day, hh, mi, ss, t, tzo) ==
    IF ~(hh \in 0..23 /\ mi \in 0..59 /\ ss \in 0..59) THEN NaN
    ELSE TimeValue(day,
                   ((hh * 60 + mi) * 60 + ss) * 1000
                   + (IF Len(t) >= 4 THEN Num(SubSeq(t, 2, 4)) ELSE 0)
                   + (IF t # <<>> /\ t[Len(t)] = "Z" THEN 0 ELSE tzo * MsPerMinute))

ParseFields(y, mo, d, rest, tzo) ==
    IF ~(mo \in 1..12 /\ d \in 1..DaysInMonth(y, mo)) THEN NaN
    ELSE IF rest = <<>> THEN TimeValue(DaysFromCivil(y, mo, d), 0)
    ELSE ParseTime(DaysFromCivil(y, mo, d), Num(SubSeq(rest, 2, 3)),
                   Num(SubSeq(rest, 5, 6)), Num(SubSeq(rest, 8, 9)),
                   SubSeq(rest, 10, Len(rest)), tzo)

\* yd: the digits of the year; md: "-MM-DD"; rest: what follows the date.
ParseParts(sign, yd, md, rest, tzo) ==
    IF /\ AllDigits(yd)
       /\ md[1] = "-" /\ AllDigits(SubSeq(md, 2, 3))
       /\ md[4] = "-" /\ AllDigits(SubSeq(md, 5, 6))
       /\ TimeOk(rest)
    THEN ParseFields(sign * Num(yd), Num(SubSeq(md, 2, 3)), Num(SubSeq(md, 5, 6)),
                     rest, tzo)
    ELSE NaN

ParseDate(s, tzo) ==
    IF Len(s) >= 13 /\ s[1] \in {"+", "-"}
    THEN ParseParts((IF s[1] = "-" THEN -1 ELSE 1), SubSeq(s, 2, 7),
                    SubSeq(s, 8, 13), SubSeq(s, 14, Len(s)), tzo)
    ELSE IF Len(s) >= 10
    THEN ParseParts(1, SubSeq(s, 1, 4), SubSeq(s, 5, 10), SubSeq(s, 11, Len(s)), tzo)
    ELSE NaN

\* Date.prototype.toISOString of a valid time value  (amazon_settings.js:10):
\* YYYY-MM-DDTHH:mm:ss.sssZ, the year on six signed digits outside 0..9999.
IsoYear(y) ==
    IF y \in 0..9999 THEN Pad(y, 4)
    ELSE IF y < 0 THEN <<"-">> \o Pad(-y, 6) ELSE <<"+">> \o Pad(y, 6)

IsoString(c, sec, ms) ==
    IsoYear(c.year) \o <<"-">> \o Pad(c.month, 2) \o <<"-">> \o Pad(c.day, 2)
    \o <<"T">> \o Pad(sec \div 3600, 2) \o <<":">> \o Pad((sec \div 60) % 60, 2)
    \o <<":">> \o Pad(sec % 60, 2) \o <<".">> \o Pad(ms, 3) \o <<"Z">>

toISOString(tv) == IsoString(CivilFromDays(tv.day), tv.ms \div 1000, tv.ms % 1000)

\* s.split(sep)[0]: the part of s before the first sep, all of s without one.
SplitFirst(s, sep) ==
    IF \E k \in 1..Len(s) : s[k] = sep
    THEN SubSeq(s, 1, (CHOOSE k \in 1..Len(s) :
                          s[k] = sep /\ \A j \in 1..(k - 1) : s[j] # sep) - 1)
    ELSE s

\* formatToISO8601  (amazon_settings.js:7-11, part_000:7-11).
\* value: what it returns; threw: toISOString raised RangeError on an
\* Invalid Date; parsed: whether the Date constructor was called.
FormatDate_Rounded(date) ==
    IF date.nan
    THEN [value |-> Undefined, threw |-> TRUE, parsed |-> TRUE]
    ELSE [value  |-> Str(SplitFirst(toISOString(TimeValue(date.day, date.ms + 500)), ".")
                         \o <<"Z">>),
          threw  |-> FALSE, parsed |-> TRUE]

FormatDate(date) ==
    IF date.nan
    THEN [value |-> Undefined, threw |-> TRUE, parsed |-> TRUE]
    ELSE [value  |-> Str(SplitFirst(toISOString(date), ".") \o <<"Z">>),
          threw  |-> FALSE, parsed |-> TRUE]

formatToISO8601_NoGuard(dateString, tzo) == FormatDate(ParseDate(dateString.s, tzo))

formatToISO8601(dateString, tzo) ==
    IF Falsy(dateString)
    THEN [value |-> Null, threw |-> FALSE, parsed |-> FALSE]
    ELSE FormatDate(ParseDate(dateString.s, tzo))

----------------------------------------------------------------------------
\* The value of res.message: null, absent, an array of len records, a
\* non-empty string, or a plain object.
MsgNull      == [t |-> "null", len |-> 0]
MsgUndefined == [t |-> "undefined", len |-> 0]
MsgArray(k)  == [t |-> "array", len |-> k]
MsgString    == [t |-> "string", len |-> 1]
MsgObject    == [t |-> "object", len |-> 0]
Messages  == {MsgNull, MsgUndefined, MsgString, MsgObject}
             \cup {MsgArray(k) : k \in 0..MaxLen}
Responses == [message : Messages]

Truthy(m)  == ~(m.t \in {"null", "undefined"} \/ (m.t = "string" /\ m.len = 0))
IsArray(m) == m.t = "array"

Method == "amazon_integration.amazon_integration.py.amazon.sync_amazon_vendor_orders"

\* The notices passed to frappe.msgprint.
SuccessNotice == [title |-> "Success", indicator |-> "green",
                  message |-> "Amazon orders synced successfully."]
InfoNotice    == [title |-> "Information", indicator |-> "yellow",
                  message |-> "No new orders were found to sync."]
ErrorNotice   == [title |-> "Error", indicator |-> "red",
                  message |-> "Failed to sync orders. Please try again or contact support if the issue persists."]
ApiSuccessNotice == [title |-> "Success", indicator |-> "green",
                     message |-> "Orders synced successfully."]
ApiErrorNotice   == [title |-> "Error", indicator |-> "red",
                     message |-> "No orders were synced."]

\* The two normalisations of a handler run, in order: the second is not
\* reached when the first throws  (amazon_settings.js:14-15).
NormalizeBoth(a, b) ==
    IF a.threw
    THEN [threw |-> TRUE, created_after |-> Undefined, created_before |-> Undefined,
          trace |-> <<"new Date", "throw">>]
    ELSE IF b.threw
    THEN [threw |-> TRUE, created_after |-> a.value, created_before |-> Undefined,
          trace |-> (IF a.parsed THEN <<"new Date">> ELSE <<>>) \o <<"new Date", "throw">>]
    ELSE [threw |-> FALSE, created_after |-> a.value, created_before |-> b.value,
          trace |-> (IF a.parsed THEN <<"new Date">> ELSE <<>>)
                    \o (IF b.parsed THEN <<"new Date">> ELSE <<>>)]

\* Values of the two date fields of the form (frm.doc.from_date, to_date).
DateOnly   == <<"2","0","2","4","-","0","1","-","1","5">>
LocalTime  == DateOnly \o <<" ","1","0",":","3","0",":","0","0">>
UtcMillis  == <<"1","9","6","9","-","1","2","-","3","1","T","2","3",":","5","9",
                ":","5","9",".","5","0","0","Z">>
LastLocal  == <<"9","9","9","9","-","1","2","-","3","1"," ","2","3",":","5","9",
                ":","5","9">>
LocalMillis == DateOnly \o <<"T","1","0",":","3","0",":","0","0",".","9","9","9">>
Garbage    == <<"t","o","d","a","y">>

DateInputs == {Null, Undefined, Str(<<>>), Str(DateOnly), Str(LocalTime),
               Str(UtcMillis), Str(LocalMillis), Str(LastLocal), Str(Garbage)}

\* getTimezoneOffset() of the browser: UTC+05:30 and UTC-05:00.
TimezoneOffsets == {-330, 300}

Normalize(frm, tz) ==
    NormalizeBoth(formatToISO8601(frm.from_date, tz), formatToISO8601(frm.to_date, tz))

\* frappe.call({method, args, ...}) with the normalised pair
\* (amazon_settings.js:24-29); before holds the effects that precede it.
IssueCall(nz, before) ==
    IF nz.threw THEN [threw |-> TRUE, trace |-> nz.trace, calls |-> <<>>]
    ELSE [threw |-> FALSE,
          trace |-> nz.trace \o before \o <<"frappe.call">>,
          calls |-> <<[method |-> Method,
                       args |-> [created_after  |-> nz.created_after,
                                 created_before |-> nz.created_before]]>>]

\* load_sync showing the overlay only after the call is issued
load_sync_run_CallBeforeFreeze(frm, tz) ==
    [IssueCall(Normalize(frm, tz), <<"console.log", "console.log">>) EXCEPT
        !.trace = IF Normalize(frm, tz).threw THEN @ ELSE @ \o <<"freeze">>]

\* The synchronous part of load_sync of "Amazon Settings"
\* (amazon_settings.js:5-29): the effects in order and the calls issued.
load_sync_run(frm, tz) ==
    IssueCall(Normalize(frm, tz), <<"console.log", "console.log", "freeze">>)

\* callback with the notice rendered before the overlay is cleared
callback_NoticeFirst(r) ==
    IF Truthy(r.message) /\ IsArray(r.message) /\ r.message.len > 0
    THEN [trace |-> <<"msgprint", "unfreeze", "console.log">>, notice |-> <<SuccessNotice>>]
    ELSE [trace |-> <<"msgprint", "unfreeze">>, notice |-> <<InfoNotice>>]

\* callback asking for more than one record
callback_LongerThanOne(r) ==
    IF Truthy(r.message) /\ IsArray(r.message) /\ r.message.len > 1
    THEN [trace |-> <<"unfreeze", "msgprint", "console.log">>, notice |-> <<SuccessNotice>>]
    ELSE [trace |-> <<"unfreeze", "msgprint">>, notice |-> <<InfoNotice>>]

\* callback without the else: the informational notice follows the success one
callback_BothNotices(r) ==
    IF Truthy(r.message) /\ IsArray(r.message) /\ r.message.len > 0
    THEN [trace |-> <<"unfreeze", "msgprint", "console.log", "msgprint">>,
          notice |-> <<SuccessNotice, InfoNotice>>]
    ELSE [trace |-> <<"unfreeze", "msgprint">>, notice |-> <<InfoNotice>>]

\* callback testing only res.message, as part_000:30 does
callback_TruthyOnly(r) ==
    IF Truthy(r.message)
    THEN [trace |-> <<"unfreeze", "msgprint", "console.log">>, notice |-> <<SuccessNotice>>]
    ELSE [trace |-> <<"unfreeze", "msgprint">>, notice |-> <<InfoNotice>>]

\* callback of "Amazon Settings"  (amazon_settings.js:30-48)
callback(r) ==
    IF Truthy(r.message) /\ IsArray(r.message) /\ r.message.len > 0
    THEN [trace |-> <<"unfreeze", "msgprint", "console.log">>, notice |-> <<SuccessNotice>>]
    ELSE [trace |-> <<"unfreeze", "msgprint">>, notice |-> <<InfoNotice>>]

\* error without the unfreeze
error_NoUnfreeze(err) ==
    [trace |-> <<"console.error", "msgprint">>, notice |-> <<ErrorNotice>>]

\* error of "Amazon Settings"  (amazon_settings.js:49-59)
error(err) ==
    [trace |-> <<"unfreeze", "console.error", "msgprint">>, notice |-> <<ErrorNotice>>]

\* The synchronous part of load_sync of "Amazon API Settings" (part_000:5-28)
api_load_sync_run(frm, tz) ==
    IssueCall(Normalize(frm, tz), <<"console.log", "console.log">>)

\* callback of "Amazon API Settings"  (part_000:29-44)
api_callback(r) ==
    IF Truthy(r.message)
    THEN [trace |-> <<"msgprint", "console.log">>, notice |-> <<ApiSuccessNotice>>]
    ELSE [trace |-> <<"msgprint">>, notice |-> <<ApiErrorNotice>>]

----------------------------------------------------------------------------
VARIABLES
    form,      \* the doctype of the open form: which handler is registered
    tzo,       \* the browser's getTimezoneOffset()
    doc,       \* frm.doc: from_date and to_date
    n,         \* invocations of load_sync so far; they are numbered 1..n
    phase,     \* per invocation: idle, threw, inflight, resolved, rejected
    calls,     \* per invocation: the remote calls it issued, in order
    res,       \* per invocation: the response its call resolved with
    notice,    \* per invocation: the notices it rendered, in order
    trace      \* per invocation: its effects, in program order

vars == <<form, tzo, doc, n, phase, calls, res, notice, trace>>

Invs == 1..MaxInv
NoResponse == [message |-> MsgUndefined]

Init ==
    /\ form \in {"Amazon Settings", "Amazon API Settings"}
    /\ tzo \in TimezoneOffsets
    /\ doc \in [from_date : DateInputs, to_date : DateInputs]
    /\ n = 0
    /\ phase = [i \in Invs |-> "idle"]
    /\ calls = [i \in Invs |-> <<>>]
    /\ res = [i \in Invs |-> NoResponse]
    /\ notice = [i \in Invs |-> <<>>]
    /\ trace = [i \in Invs |-> <<>>]

\* One run of a handler up to the point where it returns or throws.
Start(run) ==
    /\ n < MaxInv
    /\ n' = n + 1
    /\ phase' = [phase EXCEPT ![n + 1] = IF run.threw THEN "threw" ELSE "inflight"]
    /\ calls' = [calls EXCEPT ![n + 1] = run.calls]
    /\ trace' = [trace EXCEPT ![n + 1] = run.trace]
    /\ UNCHANGED <<form, tzo, doc, res, notice>>

\* The transport hands invocation i's call to one of its handlers.
Finish(i, ph, r, h) ==
    /\ phase[i] = "inflight"
    /\ phase' = [phase EXCEPT ![i] = ph]
    /\ res' = [res EXCEPT ![i] = r]
    /\ notice' = [notice EXCEPT ![i] = notice[i] \o h.notice]
    /\ trace' = [trace EXCEPT ![i] = trace[i] \o h.trace]
    /\ UNCHANGED <<form, tzo, doc, n, calls>>

\* "Amazon Settings": the user triggers load_sync; no guard on calls in flight.
\* load_sync returning at once while a call is in flight
load_sync_Deduplicated ==
    /\ form = "Amazon Settings"
    /\ IF \E i \in Invs : phase[i] = "inflight"
       THEN Start([threw |-> FALSE, trace |-> <<>>, calls |-> <<>>])
       ELSE Start(load_sync_run(doc, tzo))

load_sync ==
    /\ form = "Amazon Settings"
    /\ Start(load_sync_run(doc, tzo))

Resolve(i) ==
    /\ form = "Amazon Settings"
    /\ \E r \in Responses : Finish(i, "resolved", r, callback(r))

Reject(i) ==
    /\ form = "Amazon Settings"
    /\ Finish(i, "rejected", NoResponse, error("err"))

\* "Amazon API Settings"
api_load_sync ==
    /\ form = "Amazon API Settings"
    /\ Start(api_load_sync_run(doc, tzo))

ApiResolve(i) ==
    /\ form = "Amazon API Settings"
    /\ \E r \in Responses : Finish(i, "resolved", r, api_callback(r))

\* part_000 passes no error handler to frappe.call: a rejected call runs no
\* code of the handler.
ApiReject(i) ==
    /\ form = "Amazon API Settings"
    /\ Finish(i, "rejected", NoResponse, [trace |-> <<>>, notice |-> <<>>])

Next ==
    \/ load_sync
    \/ api_load_sync
    \/ \E i \in Invs : Resolve(i)
    \/ \E i \in Invs : Reject(i)
    \/ \E i \in Invs : ApiResolve(i)
    \/ \E i \in Invs : ApiReject(i)

Spec == Init /\ [][Next]_vars

----------------------------------------------------------------------------
\* Derived views of the state.
Count(seq, x) == Cardinality({k \in 1..Len(seq) : seq[k] = x})
Started       == 1..n
InFlightOf(ph) == {i \in Invs : ph[i] = "inflight"}
InFlight      == InFlightOf(phase)
\* The overlay shown by invocation i has not been cleared by it.
Frozen(i)     == Count(trace[i], "freeze") > Count(trace[i], "unfreeze")
Absent        == {Null, Undefined, Str(<<>>)}

TypeOK ==
    /\ n \in 0..MaxInv
    /\ phase \in [Invs -> {"idle", "threw", "inflight", "resolved", "rejected"}]
    /\ \A i \in Invs : i > n <=> phase[i] = "idle"
    /\ \A i \in Invs : res[i] \in Responses

----------------------------------------------------------------------------
\* C1: an invocation that showed the busy overlay has cleared it once its
\* remote call has resolved (with or without a message) or been rejected: no
\* invocation that is over leaves its overlay shown.
C1_OverlayClearedOnEveryExit ==
    \A i \in Invs :
        (Count(trace[i], "freeze") > 0 /\ phase[i] \notin {"idle", "inflight"})
            => /\ ~Frozen(i)
               /\ Count(trace[i], "unfreeze") = 1

C1_Witness ==
    \E i, j \in Invs :
        /\ phase[i] = "resolved" /\ res[i].message = MsgNull
        /\ phase[j] = "rejected"
        /\ Count(trace[i], "freeze") = 1 /\ Count(trace[j], "freeze") = 1
        /\ ~Frozen(i) /\ ~Frozen(j)

\* C2: in every invocation, each notice is rendered at a point of the
\* program order where the overlay the invocation showed has been cleared.
C2_ClearBeforeNotice ==
    \A i \in Invs : \A k \in 1..Len(trace[i]) :
        trace[i][k] = "msgprint"
            => Count(SubSeq(trace[i], 1, k - 1), "freeze")
               = Count(SubSeq(trace[i], 1, k - 1), "unfreeze")

C2_Witness ==
    \E i, j \in Invs :
        /\ phase[i] = "resolved" /\ phase[j] = "rejected"
        /\ Count(trace[i], "freeze") = 1 /\ Count(trace[i], "msgprint") = 1
        /\ Count(trace[j], "freeze") = 1 /\ Count(trace[j], "msgprint") = 1

\* C3: every invocation has issued exactly one remote call, to Method, with
\* the normalised from_date and to_date as created_after and created_before.
C3_ExactlyOneCall ==
    \A i \in Started :
        /\ Len(calls[i]) = 1
        /\ Count(trace[i], "frappe.call") = 1
        /\ calls[i][1].method = Method
        /\ calls[i][1].args.created_after = formatToISO8601(doc.from_date, tzo).value
        /\ calls[i][1].args.created_before = formatToISO8601(doc.to_date, tzo).value

\* C4: in both handlers, a call resolved with a message that is an empty
\* array, null or absent is answered by the yellow informational notice.
C4_EmptyIsInformational ==
    \A i \in Invs :
        (phase[i] = "resolved" /\ res[i].message \in {MsgArray(0), MsgNull, MsgUndefined})
            => /\ Len(notice[i]) = 1
               /\ notice[i][1].indicator = "yellow"

\* C5: a call resolved with an array of at least one record is answered by
\* the green success notice and by no other notice.
C5_NonEmptyIsSuccess ==
    \A i \in Invs :
        (phase[i] = "resolved" /\ IsArray(res[i].message) /\ res[i].message.len >= 1)
            => /\ Len(notice[i]) = 1
               /\ notice[i][1].title = "Success"
               /\ notice[i][1].indicator = "green"
               /\ Count(trace[i], "msgprint") = 1

C5_Witness ==
    \E i \in Invs :
        /\ form = "Amazon Settings"
        /\ phase[i] = "resolved" /\ res[i].message = MsgArray(MaxLen)
        /\ notice[i] = <<SuccessNotice>>

\* C6: in both handlers, a rejected call is answered by the red error notice,
\* the failure is logged, and the overlay is cleared exactly once.
C6_RejectionIsError ==
    \A i \in Invs :
        phase[i] = "rejected"
            => /\ Len(notice[i]) = 1
               /\ notice[i][1].indicator = "red"
               /\ Count(trace[i], "console.error") = 1
               /\ Count(trace[i], "unfreeze") = 1

\* C7: no invocation ends in an exception thrown by the handler, whatever
\* the form holds.
C7_NoExceptionPropagates ==
    \A i \in Invs : phase[i] # "threw" /\ Count(trace[i], "throw") = 0

\* C8: an absent or empty date field is normalised to null without the date
\* parser being called, reaches the remote call as null, and never keeps the
\* call from being issued, whatever the other field holds.
C8_AbsentPassesAsNull ==
    \A i \in Started :
        /\ doc.from_date \in Absent /\ phase[i] # "threw"
              => calls[i][1].args.created_after = Null
        /\ doc.to_date \in Absent /\ phase[i] # "threw"
              => calls[i][1].args.created_before = Null
        /\ Count(trace[i], "new Date")
              <= Cardinality({f \in {"from_date", "to_date"} : doc[f] \notin Absent})
        /\ phase[i] = "threw"
              => \E f \in {"from_date", "to_date"} :
                    doc[f] \notin Absent /\ ParseDate(doc[f].s, tzo).nan

C8_Witness ==
    /\ doc.from_date = Null /\ doc.to_date = Str(LocalTime)
    /\ phase[1] = "inflight"
    /\ calls[1][1].args.created_after = Null
    /\ calls[1][1].args.created_before.t = "string"
    /\ Count(trace[1], "new Date") = 1

\* The shape YYYY-MM-DDTHH:mm:ssZ.
IsoShape(s) ==
    /\ Len(s) = 20
    /\ \A k \in {1, 2, 3, 4, 6, 7, 9, 10, 12, 13, 15, 16, 18, 19} : IsDigit(s[k])
    /\ s[5] = "-" /\ s[8] = "-" /\ s[11] = "T"
    /\ s[14] = ":" /\ s[17] = ":" /\ s[20] = "Z"

\* C9: every non-null argument of an issued call has the shape
\* YYYY-MM-DDTHH:mm:ssZ and is a fixed point of the normalisation.
C9_ShapeAndIdempotent ==
    \A i \in Started : \A k \in 1..Len(calls[i]) :
        \A v \in {calls[i][k].args.created_after, calls[i][k].args.created_before} :
            v.t = "string"
                => /\ IsoShape(v.s)
                   /\ formatToISO8601(v, tzo).value = v

\* C10: every run of load_sync of "Amazon Settings", whatever calls are in
\* flight, shows the overlay and puts one more call to Method in flight
\* beside them; and every resolution or rejection clears the overlay once
\* and leaves the other calls in flight.
C10_NoGuardOnReentry ==
    [][form = "Amazon Settings" =>
          /\ (n' = n + 1 /\ phase'[n + 1] # "threw")
                => /\ InFlightOf(phase') = InFlight \cup {n + 1}
                   /\ Len(calls'[n + 1]) = 1
                   /\ calls'[n + 1][1].method = Method
                   /\ Count(trace'[n + 1], "freeze") = 1
                   /\ Count(trace'[n + 1], "unfreeze") = 0
          /\ \A i \in InFlight :
                phase'[i] # "inflight"
                   => /\ Count(trace'[i], "unfreeze") = 1
                      /\ InFlightOf(phase') = InFlight \ {i}]_vars

C10_Witness ==
    /\ form = "Amazon Settings"
    /\ phase[1] = "inflight" /\ phase[2] = "inflight"
    /\ Len(calls[1]) = 1 /\ Len(calls[2]) = 1
    /\ calls[1][1].method = Method /\ calls[2][1].method = Method
    /\ Frozen(1) /\ Frozen(2)

\* C11: in "Amazon Settings", an invocation renders nothing before its call
\* is answered, and once the call has resolved or been rejected it has been
\* resumed by one callback only and has rendered exactly one notice: the
\* error notice after a rejection, the success or informational one after
\* a resolution.
C11_ExactlyOneNotice ==
    form = "Amazon Settings" =>
        \A i \in Invs :
            /\ phase[i] \in {"idle", "threw", "inflight"}
                  => notice[i] = <<>> /\ Count(trace[i], "msgprint") = 0
            /\ phase[i] \in {"resolved", "rejected"}
                  => /\ Len(notice[i]) = 1
                     /\ Count(trace[i], "msgprint") = 1
                     /\ Count(trace[i], "unfreeze") = 1
            /\ phase[i] = "resolved"
                  => /\ notice[i][1] \in {SuccessNotice, InfoNotice}
                     /\ Count(trace[i], "console.error") = 0
            /\ phase[i] = "rejected"
                  => /\ notice[i] = <<ErrorNotice>>
                     /\ Count(trace[i], "console.error") = 1

C11_Witness ==
    \E i, j \in Invs :
        /\ form = "Amazon Settings"
        /\ phase[i] = "resolved" /\ res[i].message = MsgArray(MaxLen)
        /\ notice[i] = <<SuccessNotice>>
        /\ phase[j] = "rejected" /\ notice[j] = <<ErrorNotice>>

\* The seconds field of a normalised string: its two characters before Z.
SecondsOf(s) == Num(SubSeq(s, Len(s) - 2, Len(s) - 1))

\* C12: a date field whose instant has a non-zero millisecond part reaches
\* the call with the seconds of that instant, as a string that denotes the
\* instant cut down to the whole second: the fraction is dropped, never
\* rounded up.
C12_FractionTruncated ==
    \A i \in Started :
        phase[i] # "threw" =>
            \A p \in {<<doc.from_date, calls[i][1].args.created_after>>,
                      <<doc.to_date, calls[i][1].args.created_before>>} :
                p[1] \notin Absent =>
                    \A tv \in {ParseDate(p[1].s, tzo)} :
                        tv.ms % 1000 # 0
                            => /\ SecondsOf(p[2].s) = (tv.ms \div 1000) % 60
                               /\ ParseDate(p[2].s, tzo)
                                     = [tv EXCEPT !.ms = @ - (@ % 1000)]

C12_Witness ==
    /\ doc.from_date = Str(UtcMillis) /\ doc.to_date = Str(LocalMillis)
    /\ phase[1] = "inflight"
    /\ calls[1][1].args.created_after
          = Str(<<"1","9","6","9","-","1","2","-","3","1","T","2","3",":","5","9",
                  ":","5","9","Z">>)
    /\ SecondsOf(calls[1][1].args.created_before.s) = 0

\* The number of effects x over all invocations.
Total(x) ==
    Cardinality({p \in UNION {{<<i, k>> : k \in 1..Len(trace[i])} : i \in Invs} :
                    trace[p[1]][p[2]] = x})

\* C13: in "Amazon Settings", under every interleaving, the overlay is never
\* cleared more often than shown, every invocation shows it exactly once and
\* clears it at most once, and with no call in flight the two counts agree.
C13_FreezeUnfreezeBalance ==
    form = "Amazon Settings" =>
        /\ Total("unfreeze") <= Total("freeze")
        /\ \A i \in Started :
              /\ Count(trace[i], "freeze") = 1
              /\ Count(trace[i], "unfreeze") <= 1
        /\ InFlight = {} => Total("unfreeze") = Total("freeze")

\* C14: in "Amazon Settings", an invocation whose call is in flight showed
\* the overlay before it issued the call and has not cleared it, so while a
\* call is in flight more overlays have been shown than cleared; and an
\* invocation that threw during normalisation never showed the overlay.
C14_OverlayWhileInFlight ==
    form = "Amazon Settings" =>
        /\ \A i \in InFlight :
              /\ Frozen(i)
              /\ \E kf, kc \in 1..Len(trace[i]) :
                    /\ trace[i][kf] = "freeze"
                    /\ trace[i][kc] = "frappe.call"
                    /\ kf < kc
        /\ InFlight # {} => Total("freeze") > Total("unfreeze")
        /\ \A i \in Invs :
              phase[i] = "threw"
                 => Count(trace[i], "freeze") = 0 /\ calls[i] = <<>>

\* One call in flight and none before it: no invocations overlap.
C14_Witness ==
    /\ form = "Amazon Settings"
    /\ n = 1 /\ phase[1] = "inflight"
    /\ Frozen(1) /\ Len(calls[1]) = 1
    /\ Total("freeze") = 1 /\ Total("unfreeze") = 0

\* C15: in "Amazon Settings", a resolved call renders the success notice
\* exactly when message is an array of length above 0, and the informational
\* notice otherwise, also for a message that is a string or an object.
C15_SuccessIffNonEmptyArray ==
    form = "Amazon Settings" =>
        \A i \in Invs :
            phase[i] = "resolved" =>
                /\ notice[i] \in {<<SuccessNotice>>, <<InfoNotice>>}
                /\ notice[i] = <<SuccessNotice>>
                      <=> (res[i].message.t = "array" /\ res[i].message.len > 0)
                /\ notice[i] = <<InfoNotice>>
                      <=> ~(res[i].message.t = "array" /\ res[i].message.len > 0)

C15_Witness ==
    \E i, j \in Invs :
        /\ form = "Amazon Settings"
        /\ phase[i] = "resolved" /\ res[i].message = MsgString
        /\ notice[i] = <<InfoNotice>>
        /\ phase[j] = "resolved" /\ res[j].message = MsgObject
        /\ notice[j] = <<InfoNotice>>

=============================================================================
